---- MODULE Spec2Model ----
(***************************************************************************)
(* CC3064 Laboratorio 1.                                                   *)
(*   - Ejercicio 2: the raw file copier (open/read/write/close loop).      *)
(*   - Ejercicio 3: the mycall system call and its user-space test.        *)
(***************************************************************************)
EXTENDS Integers, Sequences, FiniteSets, TLC

VARIABLES
    argv,           \* the path arguments argv[1..argc-1]
    fs,             \* the file system: path -> file (NoFile where there is none)
    fs0,            \* the file system as it was when the process started
    pc,             \* position of main()
    fdt,            \* the process's descriptor table: fd -> open file, or Free
    fd_src,         \* int fd_src
    fd_dest,        \* int fd_dest
    buffer,         \* char buffer[BUFFER_SIZE]
    bytes_read,
    bytes_written,
    exit_status,    \* NoExit while running, then 0 or 1
    out,            \* messages printed so far (printf / perror)
    hist,           \* record of the system calls issued so far
    klog,           \* kernel log lines written by mycall (the values received)
    call,           \* the last mycall invocation: [arg, ret]
    tout            \* output of the syscall test program

vars == <<argv, fs, fs0, pc, fdt, fd_src, fd_dest, buffer,
          bytes_read, bytes_written, exit_status, out, hist, klog, call, tout>>

copyVars == <<argv, fs, fs0, pc, fdt, fd_src, fd_dest, buffer,
              bytes_read, bytes_written, exit_status, out, hist>>

callVars == <<klog, call, tout>>

----------------------------------------------------------------------------
(* Bounds and constants *)

BUFFER_SIZE == 1024

\* longest file of the model: more than two full buffers
MaxLen == 2500
\* a short read returns 1 byte or ShortCount bytes
ShortCount == 1000
\* number of short reads one run may see
MaxShort == 2
\* number of path arguments tried beyond the two expected
MaxExtraArgs == 1

Paths == {"a", "b"}
NoFile == [exists |-> FALSE, data |-> <<>>]
File(bytes) == [exists |-> TRUE, data |-> bytes]
NoExit == -1

Min(x, y) == IF x < y THEN x ELSE y

\* byte i of the file first stored at path p (period 251 is coprime to 1024)
Seed(p) == IF p = "a" THEN 0 ELSE 97
ByteAt(p, i) == (Seed(p) + i) % 251
Content(p, len) == [i \in 1..len |-> ByteAt(p, i)]

Lens == {0, 1, BUFFER_SIZE, MaxLen}
FileStates(p) == {NoFile} \cup {File(Content(p, len)) : len \in Lens}

\* what the uninitialised stack buffer may hold
Garbage == {253, 255}

Argvs == UNION {[1..n -> Paths] : n \in 0..(2 + MaxExtraArgs)}

----------------------------------------------------------------------------
(* The system calls main() uses, on the process's descriptor table *)

\* descriptors 0, 1, 2 are the standard streams
FDs == {3, 4}
Free == [path |-> "", off |-> 0, mode |-> "free"]

OpenFds == {d \in FDs : fdt[d] # Free}
LowestFree == CHOOSE d \in FDs \ OpenFds : \A e \in FDs \ OpenFds : d <= e

\* open(2) returns the lowest free descriptor, at offset 0
Opened(path, mode) == [fdt EXCEPT ![LowestFree] = [path |-> path, off |-> 0, mode |-> mode]]

\* the counts read(fd, buf, BUFFER_SIZE) may return with avail bytes left:
\* everything that fits, or fewer (a short read)
ReadCounts(avail) ==
    {Min(avail, BUFFER_SIZE)} \cup
    (IF hist.short < MaxShort
       THEN {k \in {1, ShortCount} : k < Min(avail, BUFFER_SIZE)}
       ELSE {})

\* the counts write(fd, buf, n) may return: n, fewer (a partial write), or -1
WriteCounts(n) == {n, -1} \cup {k \in {0, 1, n - 1} : 0 <= k /\ k < n}

\* content with data stored at offset off
WriteAt(content, off, data) ==
    [i \in 1..(IF off + Len(data) > Len(content) THEN off + Len(data) ELSE Len(content)) |->
        IF i > off /\ i <= off + Len(data) THEN data[i - off] ELSE content[i]]

\* is d a descriptor open in the given mode
Usable(d, mode) == d \in FDs /\ fdt[d] # Free /\ fdt[d].mode = mode

\* close(d): the descriptor table and the record of it
Closed(t, d) == IF d \in FDs /\ t[d] # Free THEN [t EXCEPT ![d] = Free] ELSE t
CloseLog(h, t, d) ==
    IF d \in FDs /\ t[d] # Free
      THEN [h EXCEPT !.closes = Append(@, d)]
      ELSE [h EXCEPT !.bad_io = TRUE]

----------------------------------------------------------------------------
(* main(), Ejercicio 2 *)

argc == Len(argv) + 1
source_file == argv[1]
dest_file == argv[2]

MsgUsage == "Uso correcto"
MsgSrc == "Error al abrir archivo origen"
MsgDest == "Error al crear archivo destino"
MsgWrite == "Error al escribir"
MsgRead == "Error al leer"
MsgDone == "Copia completada exitosamente."

HistInit == [reads |-> 0, writes |-> 0, short |-> 0, total |-> 0, wreq |-> 0,
             opens |-> <<>>, closes |-> <<>>, src_calls |-> 0, dest_calls |-> 0, bad_io |-> FALSE]

CopyInit ==
    /\ argv \in Argvs
    /\ fs \in [Paths -> UNION {FileStates(p) : p \in Paths}]
    /\ \A p \in Paths : fs[p] \in FileStates(p)
    /\ fs0 = fs
    /\ pc = "start"
    /\ fdt = [d \in FDs |-> Free]
    /\ fd_src = -1
    /\ fd_dest = -1
    /\ \E g \in Garbage : buffer = [i \in 1..BUFFER_SIZE |-> g]
    /\ bytes_read = 0
    /\ bytes_written = 0
    /\ exit_status = NoExit
    /\ out = <<>>
    /\ hist = HistInit

CallIdle ==
    /\ klog = <<>>
    /\ call = [arg |-> 0, ret |-> 0]
    /\ tout = <<>>

Init == CopyInit /\ CallIdle

\* argc != 3
UsageError_lt == argc < 3
UsageError == argc # 3

\* if (argc != 3) { printf(usage); exit(1); }
CheckArgs ==
    /\ pc = "start"
    /\ IF UsageError
         THEN /\ out' = Append(out, MsgUsage)
              /\ exit_status' = 1
              /\ pc' = "done"
         ELSE /\ pc' = "open_src"
              /\ UNCHANGED <<out, exit_status>>
    /\ UNCHANGED <<argv, fs, fs0, fdt, fd_src, fd_dest, buffer,
                   bytes_read, bytes_written, hist>>

\* fd_src == -1
SrcOpenFailed_zero(fd) == fd = 0
SrcOpenFailed(fd) == fd = -1

\* fd_src = open(source_file, O_RDONLY); on -1: perror, exit(1)
OpenSrc ==
    /\ pc = "open_src"
    /\ \E ok \in BOOLEAN :
         IF ok /\ fs[source_file].exists
           THEN /\ fd_src' = LowestFree
                /\ fdt' = Opened(source_file, "r")
                /\ hist' = [hist EXCEPT !.opens = Append(@, LowestFree),
                                        !.src_calls = @ + 1]
           ELSE /\ fd_src' = -1
                /\ hist' = [hist EXCEPT !.src_calls = @ + 1]
                /\ UNCHANGED fdt
    /\ IF SrcOpenFailed(fd_src')
         THEN /\ out' = Append(out, MsgSrc)
              /\ exit_status' = 1
              /\ pc' = "done"
         ELSE /\ pc' = "open_dest"
              /\ UNCHANGED <<out, exit_status>>
    /\ UNCHANGED <<argv, fs, fs0, fd_dest, buffer, bytes_read, bytes_written>>

\* fd_dest = open(dest_file, O_WRONLY | O_CREAT | O_TRUNC, 0644);
\* on -1: perror, close(fd_src), exit(1)
OpenDest_noclose ==
    /\ pc = "open_dest"
    /\ \E ok \in BOOLEAN :
         IF ok
           THEN /\ fd_dest' = LowestFree
                /\ fdt' = Opened(dest_file, "w")
                /\ fs' = [fs EXCEPT ![dest_file] = File(<<>>)]
                /\ hist' = [hist EXCEPT !.opens = Append(@, LowestFree),
                                        !.dest_calls = @ + 1]
                /\ pc' = "read"
                /\ UNCHANGED <<out, exit_status>>
           ELSE /\ fd_dest' = -1
                /\ out' = Append(out, MsgDest)
                /\ hist' = [hist EXCEPT !.dest_calls = @ + 1]
                /\ exit_status' = 1
                /\ pc' = "done"
                /\ UNCHANGED <<fs, fdt>>
    /\ UNCHANGED <<argv, fs0, fd_src, buffer, bytes_read, bytes_written>>

OpenDest ==
    /\ pc = "open_dest"
    /\ \E ok \in BOOLEAN :
         IF ok
           THEN /\ fd_dest' = LowestFree
                /\ fdt' = Opened(dest_file, "w")
                /\ fs' = [fs EXCEPT ![dest_file] = File(<<>>)]
                /\ hist' = [hist EXCEPT !.opens = Append(@, LowestFree),
                                        !.dest_calls = @ + 1]
                /\ pc' = "read"
                /\ UNCHANGED <<out, exit_status>>
           ELSE /\ fd_dest' = -1
                /\ out' = Append(out, MsgDest)
                /\ fdt' = Closed(fdt, fd_src)
                /\ hist' = CloseLog([hist EXCEPT !.dest_calls = @ + 1], fdt, fd_src)
                /\ exit_status' = 1
                /\ pc' = "done"
                /\ UNCHANGED fs
    /\ UNCHANGED <<argv, fs0, fd_src, buffer, bytes_read, bytes_written>>

\* bytes_read = read(fd_src, buffer, BUFFER_SIZE); the loop goes on while > 0
Read ==
    /\ pc = "read"
    /\ IF Usable(fd_src, "r")
         THEN LET f == fdt[fd_src]
                  avail == Len(fs[f.path].data) - f.off
              IN \/ \E n \in ReadCounts(IF avail > 0 THEN avail ELSE 0) :
                        /\ bytes_read' = n
                        /\ buffer' = [i \in 1..BUFFER_SIZE |->
                                        IF i <= n THEN fs[f.path].data[f.off + i] ELSE buffer[i]]
                        /\ fdt' = [fdt EXCEPT ![fd_src].off = @ + n]
                        /\ hist' = [hist EXCEPT
                                      !.reads = @ + 1,
                                      !.short = IF n < Min(avail, BUFFER_SIZE)
                                                  THEN @ + 1 ELSE @]
                 \/ /\ bytes_read' = -1
                    /\ hist' = [hist EXCEPT !.reads = @ + 1]
                    /\ UNCHANGED <<buffer, fdt>>
         ELSE /\ bytes_read' = -1
              /\ hist' = [hist EXCEPT !.reads = @ + 1, !.bad_io = TRUE]
              /\ UNCHANGED <<buffer, fdt>>
    /\ pc' = IF bytes_read' > 0 THEN "write" ELSE "after_loop"
    /\ UNCHANGED <<argv, fs, fs0, fd_src, fd_dest, bytes_written, exit_status, out>>

\* the count argument of write(fd_dest, buffer, bytes_read)
WriteCount_full == BUFFER_SIZE
WriteCount == bytes_read

\* bytes_written = write(fd_dest, buffer, bytes_read);
Write ==
    /\ pc = "write"
    /\ IF Usable(fd_dest, "w")
         THEN \E w \in WriteCounts(WriteCount) :
                 LET f == fdt[fd_dest]
                     k == IF w > 0 THEN w ELSE 0
                 IN /\ bytes_written' = w
                    /\ fs' = [fs EXCEPT ![f.path].data = WriteAt(@, f.off, SubSeq(buffer, 1, k))]
                    /\ fdt' = [fdt EXCEPT ![fd_dest].off = @ + k]
                    /\ hist' = [hist EXCEPT !.writes = @ + 1, !.wreq = WriteCount]
         ELSE /\ bytes_written' = -1
              /\ hist' = [hist EXCEPT !.writes = @ + 1, !.wreq = WriteCount,
                                      !.bad_io = TRUE]
              /\ UNCHANGED <<fs, fdt>>
    /\ pc' = "check"
    /\ UNCHANGED <<argv, fs0, fd_src, fd_dest, buffer, bytes_read, exit_status, out>>

\* bytes_written != bytes_read
WriteFailed_neg == bytes_written < 0
WriteFailed == bytes_written # bytes_read

\* if (bytes_written != bytes_read) { perror; close(fd_src); close(fd_dest); exit(1); }
CheckWrite ==
    /\ pc = "check"
    /\ IF WriteFailed
         THEN /\ out' = Append(out, MsgWrite)
              /\ fdt' = Closed(Closed(fdt, fd_src), fd_dest)
              /\ hist' = CloseLog(CloseLog(hist, fdt, fd_src), Closed(fdt, fd_src), fd_dest)
              /\ exit_status' = 1
              /\ pc' = "done"
         ELSE /\ hist' = [hist EXCEPT !.total = @ + bytes_read]
              /\ pc' = "read"
              /\ UNCHANGED <<out, fdt, exit_status>>
    /\ UNCHANGED <<argv, fs, fs0, fd_src, fd_dest, buffer, bytes_read, bytes_written>>

\* if (bytes_read == -1) perror("Error al leer");
AfterLoop ==
    /\ pc = "after_loop"
    /\ out' = IF bytes_read = -1 THEN Append(out, MsgRead) ELSE out
    /\ pc' = "close"
    /\ UNCHANGED <<argv, fs, fs0, fdt, fd_src, fd_dest, buffer, bytes_read,
                   bytes_written, exit_status, hist>>

\* close(fd_src); close(fd_dest); printf(done); return 0;
Finish_leak ==
    /\ pc = "close"
    /\ fdt' = Closed(fdt, fd_src)
    /\ hist' = CloseLog(hist, fdt, fd_src)
    /\ out' = Append(out, MsgDone)
    /\ exit_status' = 0
    /\ pc' = "done"
    /\ UNCHANGED <<argv, fs, fs0, fd_src, fd_dest, buffer, bytes_read, bytes_written>>

Finish ==
    /\ pc = "close"
    /\ fdt' = Closed(Closed(fdt, fd_src), fd_dest)
    /\ hist' = CloseLog(CloseLog(hist, fdt, fd_src), Closed(fdt, fd_src), fd_dest)
    /\ out' = Append(out, MsgDone)
    /\ exit_status' = 0
    /\ pc' = "done"
    /\ UNCHANGED <<argv, fs, fs0, fd_src, fd_dest, buffer, bytes_read, bytes_written>>

Next ==
    \/ (CheckArgs /\ UNCHANGED callVars)
    \/ (OpenSrc /\ UNCHANGED callVars)
    \/ (OpenDest /\ UNCHANGED callVars)
    \/ (Read /\ UNCHANGED callVars)
    \/ (Write /\ UNCHANGED callVars)
    \/ (CheckWrite /\ UNCHANGED callVars)
    \/ (AfterLoop /\ UNCHANGED callVars)
    \/ (Finish /\ UNCHANGED callVars)

Spec == Init /\ [][Next]_vars

----------------------------------------------------------------------------
(* Ejercicio 3: SYSCALL_DEFINE1(mycall, int, i) and prueba.c *)

\* the range of the int parameter
INT_MAX == 2147483647
INT_MIN == -INT_MAX - 1

\* number of values tried next to each end of the int range and around zero
Edge == 11
\* number of invocations the kernel log keeps in the model
MaxCalls == 2

Args == {INT_MIN + k : k \in 0..Edge} \cup {k - 10 : k \in (0 - Edge)..Edge}
            \cup {50} \cup {INT_MAX - k : k \in 0..Edge}

\* 32-bit two's complement addition, as the machine adds: two 16-bit halves
\* with carry, the carry out of bit 31 dropped (the kernel is built with
\* -fno-strict-overflow, so int addition wraps)
Half == 2^16
Lo(x) == x % Half
Hi(x) == (x \div Half) % Half
Add32(a, b) ==
    LET sl == Lo(a) + Lo(b)
        sh == (Hi(a) + Hi(b) + (sl \div Half)) % Half
    IN  (IF sh >= Half \div 2 THEN sh - Half ELSE sh) * Half + (sl % Half)

\* return i + 10;
mycall_inc(i) == Add32(i, 1)
mycall(i) == Add32(i, 10)

CopyIdle ==
    /\ argv = <<>>
    /\ fs = [p \in Paths |-> NoFile]
    /\ fs0 = fs
    /\ pc = "start"
    /\ fdt = [d \in FDs |-> Free]
    /\ fd_src = -1
    /\ fd_dest = -1
    /\ buffer = [i \in 1..BUFFER_SIZE |-> 255]
    /\ bytes_read = 0
    /\ bytes_written = 0
    /\ exit_status = NoExit
    /\ out = <<>>
    /\ hist = HistInit

InitCall == CopyIdle /\ CallIdle

\* the handler: printk("... Recibi: %d\n", i); return i + 10;
SysMycall(i) ==
    /\ klog' = Append(klog, i)
    /\ call' = [arg |-> i, ret |-> mycall(i)]

\* any process invoking system call 470 with some int
Invoke ==
    /\ Len(klog) < MaxCalls
    /\ \E i \in Args : SysMycall(i)
    /\ tout' = <<>>
    /\ UNCHANGED copyVars

MsgStart == "--- Iniciando prueba de Syscall ---"
MsgOk == "Funko el kernel"
MsgBad == "No funko el kernel"

\* prueba.c: res = syscall(__NR_mycall, 50); res == 60 ? "Funko" : "No funko"
Prueba ==
    /\ Len(klog) < MaxCalls
    /\ SysMycall(50)
    /\ LET res == call'.ret
       IN tout' = <<MsgStart, res, IF res = 60 THEN MsgOk ELSE MsgBad>>
    /\ UNCHANGED copyVars

NextCall == Invoke \/ Prueba

SpecCall == InitCall /\ [][NextCall]_vars

----------------------------------------------------------------------------
(* Properties of the copier *)

Printed(m) == \E i \in 1..Len(out) : out[i] = m
IsPrefix(s, t) == Len(s) <= Len(t) /\ s = SubSeq(t, 1, Len(s))
Count(seq, x) == Cardinality({i \in 1..Len(seq) : seq[i] = x})
OpenIn(mode) == {d \in OpenFds : fdt[d].mode = mode}

\* C1: a run that ends with exit status 0 left the destination byte-identical
\* to the source; no run that copied only part of the source exits 0.
C1_ExitZeroMeansIdentical ==
    (pc = "done" /\ exit_status = 0) =>
        /\ fs[dest_file].exists
        /\ fs[dest_file].data = fs[source_file].data

\* C2: a read that returns -1 is reported, both handles are closed, and the
\* process exits 1 without printing the success message.
C2_ReadErrorExitsOne ==
    (pc = "done" /\ bytes_read = -1) =>
        /\ Printed(MsgRead)
        /\ OpenFds = {}
        /\ exit_status = 1
        /\ ~Printed(MsgDone)

\* C3: at most one source and one destination handle are ever open, no read,
\* write or close is issued on a handle that is not open, and when the process
\* ends, on any path, every handle it opened has been closed exactly once.
C3_HandlesReleased ==
    /\ Cardinality(OpenIn("r")) <= 1
    /\ Cardinality(OpenIn("w")) <= 1
    /\ ~hist.bad_io
    /\ pc = "done" =>
          /\ OpenFds = {}
          /\ \A d \in FDs : /\ Count(hist.closes, d) = Count(hist.opens, d)
                            /\ Count(hist.closes, d) <= 1

C3_Witness ==
    /\ pc = "done"
    /\ Printed(MsgWrite)
    /\ Len(hist.opens) = 2
    /\ Len(hist.closes) = 2

\* C4: a write whose result differs from the count requested is reported as a
\* write error, both handles are closed and the process exits 1 in the very
\* next step: no further read or write, no retry, no success message, and
\* nothing runs after the exit.
C4_WriteErrorIsFatal ==
    /\ [][(pc = "check" /\ bytes_written # hist.wreq) =>
             /\ pc' = "done"
             /\ exit_status' = 1
             /\ out' = Append(out, MsgWrite)
             /\ OpenFds' = {}
             /\ hist'.reads = hist.reads
             /\ hist'.writes = hist.writes
             /\ fs' = fs]_vars
    /\ [][pc # "done"]_vars
    /\ [](Printed(MsgWrite) => (pc = "done" /\ exit_status = 1 /\ ~Printed(MsgDone)))

C4_Witness ==
    /\ pc = "done"
    /\ Printed(MsgWrite)
    /\ hist.total > 0
    /\ bytes_written > 0
    /\ bytes_written < hist.wreq

\* C5: with a number of path arguments other than two the process exits 1
\* having attempted no I/O: no open, read or write, and the file system is
\* as it was.
C5_UsageErrorNoIO ==
    argc # 3 =>
        /\ pc \in {"start", "done"}
        /\ pc = "done" => (exit_status = 1 /\ Printed(MsgUsage))
        /\ hist = HistInit
        /\ OpenFds = {}
        /\ fs = fs0

C5_Witness ==
    /\ pc = "done"
    /\ argc = 4
    /\ fs[argv[2]].exists
    /\ Len(fs[argv[2]].data) > 0

\* C6: when the open of the source fails the process exits 1 and the
\* destination open is never attempted: no destination handle, no file
\* created or truncated; the destination is opened only after the source is.
C6_SourceOpenFailure ==
    /\ (hist.src_calls = 1 /\ fd_src = -1) =>
          /\ pc = "done"
          /\ exit_status = 1
          /\ Printed(MsgSrc)
          /\ hist.dest_calls = 0
          /\ fd_dest = -1
          /\ OpenFds = {}
          /\ fs = fs0
    /\ hist.dest_calls > 0 => (Len(hist.opens) >= 1 /\ hist.opens[1] = fd_src)

C6_Witness ==
    /\ hist.src_calls = 1
    /\ fd_src = -1
    /\ ~fs0[source_file].exists
    /\ source_file # dest_file
    /\ Len(fs[dest_file].data) > 0

\* C7: when the source opens but the open of the destination fails, the
\* source handle is closed, no read or write is issued, the process exits 1
\* and the files are as they were.
C7_DestOpenFailure ==
    (hist.dest_calls = 1 /\ fd_dest = -1) =>
        /\ pc = "done"
        /\ exit_status = 1
        /\ Printed(MsgDest)
        /\ hist.opens = <<fd_src>>
        /\ hist.closes = <<fd_src>>
        /\ OpenFds = {}
        /\ hist.reads = 0
        /\ hist.writes = 0
        /\ fs = fs0

C7_Witness ==
    /\ hist.dest_calls = 1
    /\ fd_dest = -1
    /\ Len(fs[source_file].data) > 0

\* C8: for every pair of paths and on every exit path the source file's
\* content when the process ends is its content when the process started.
C8_SourceNeverModified ==
    (argc = 3 /\ pc = "done") => fs[source_file] = fs0[source_file]

\* C10: once the destination is open its content is a prefix of the source's;
\* each iteration issues one write that requests exactly the n bytes
\* (1 <= n <= BUFFER_SIZE) of the read before it, and after k completed
\* iterations the destination holds exactly the first hist.total bytes.
C10_DestIsPrefix ==
    (hist.dest_calls = 1 /\ fd_dest # -1) =>
        /\ IsPrefix(fs[dest_file].data, fs[source_file].data)
        /\ pc = "read" =>
              /\ fs[dest_file].data = SubSeq(fs[source_file].data, 1, hist.total)
              /\ fdt[fd_src].off = hist.total
              /\ fdt[fd_dest].off = hist.total
              /\ hist.writes = hist.reads
        /\ pc = "write" =>
              /\ bytes_read >= 1
              /\ bytes_read <= BUFFER_SIZE
              /\ hist.writes = hist.reads - 1
              /\ SubSeq(buffer, 1, bytes_read) =
                   SubSeq(fs[source_file].data, hist.total + 1, hist.total + bytes_read)
        /\ pc = "check" =>
              /\ hist.wreq = bytes_read
              /\ hist.writes = hist.reads
              /\ bytes_written = bytes_read =>
                    fs[dest_file].data =
                       SubSeq(fs[source_file].data, 1, hist.total + bytes_read)

C10_Witness ==
    /\ pc = "read"
    /\ source_file # dest_file
    /\ hist.short > 0
    /\ hist.total > 2 * BUFFER_SIZE
    /\ hist.total < Len(fs[source_file].data)

----------------------------------------------------------------------------
(* Properties of mycall *)

\* C9 as stated: for every int i the call returns i + 10 (a value above
\* INT_MAX is not a value an int holds, so i + 10 must fit).
C9_ReturnsArgPlusTen ==
    klog # <<>> => (call.arg <= INT_MAX - 10 /\ call.ret = call.arg + 10)

\* C9: the call logs the i it received and returns i + 10 when that fits an
\* int, and i + 10 - 2^32 for the ten largest ints; 50 returns 60, which the
\* test program accepts; nothing else changes.
C9_ReturnsArgPlusTenWrapped ==
    /\ CopyIdle
    /\ klog # <<>> =>
          /\ klog[Len(klog)] = call.arg
          /\ call.arg <= INT_MAX - 10 => call.ret = call.arg + 10
          /\ call.arg > INT_MAX - 10 => call.ret = INT_MIN + (call.arg - (INT_MAX - 10) - 1)
    /\ tout # <<>> => (call.arg = 50 /\ tout[2] = 60 /\ tout[3] = MsgOk)

C9_Witness ==
    /\ Len(klog) = 2
    /\ klog[1] = 50
    /\ tout = <<>>
    /\ call.arg = INT_MAX
    /\ call.ret = INT_MIN + 9

====
